---- MODULE Spec2Model ----
(***************************************************************************)
(* Card personalization controller of the dashboard web part               *)
(* (components/ModernSharePointDashboard.tsx): the card list loaded from   *)
(* MasterCardList, the per-user record of UserSettingsList, the customize  *)
(* panel (toggle, drag reorder, save, cancel) and the 4-slot grid.         *)
(*                                                                         *)
(* Handlers are modelled on every argument they accept: the `disabled`     *)
(* props of the panel's Checkbox and Save button are not guards of         *)
(* handleSelectionChange / handleSave, so their rejecting branches are     *)
(* exercised.  Drag events are the ones @dnd-kit can deliver: the          *)
(* useDraggable / useDroppable `disabled` flags of DraggableCard are       *)
(* guards of the drag actions.                                             *)
(*                                                                         *)
(* One card of the grid (components/CardComponent.tsx) and the element     *)
(* tree renderer it mounts (components/AdaptiveCardContentRenderer.tsx):   *)
(* the classification of the card's JSON text, the rendering of the        *)
(* parsed document, and the dispatch of clicks on its action buttons.      *)
(* JSON values are tagged records; a rendering is a tree of nodes, or      *)
(* Thrown when a component throws while React renders it.                  *)
(*                                                                         *)
(* ChartRenderer with the CustomChartRenderer it wraps, and ProgressBar,   *)
(* are functions of their `element` prop: they are applied to one element  *)
(* at a time, with a percentage kept as the exact quotient num / den.      *)
(***************************************************************************)
EXTENDS Integers, Sequences, FiniteSets, TLC

\* ------------------------------------------------------------------ bounds
MaxCards == 5       \* rows of MasterCardList (ids and DefaultOrder 1..MaxCards)
MaxBlobLen == 2     \* entries of a settings blob present before the first mount
MaxOps == 3         \* user operations (clicks, drags, page loads) per behaviour
MaxBodyLen == 2     \* entries of a card body built from the core elements
MaxDepth == 2       \* containers nested in a body entry
MaxUpdates == 2     \* changes of a mounted card's JSON text per behaviour
MaxClicks == 2      \* clicks on a card's buttons per behaviour
MaxPoints == 2      \* data points of a chart handed to CustomChartRenderer
MaxProgress == 1    \* distance of a ProgressBar's numbers from 0 and from 100
MaxRows == 6        \* rows of MasterCardList when only selections are changed

\* ------------------------------------------------------- program constants
Capacity == 4       \* grid slots: Array(4), `4 - fixedCount`, `index < 4`

NoCard == [id |-> 0]           \* null (activeCard, an empty grid slot, no `over`)
\* what loadUserSettings gets from the store: no item (or a failed request), an
\* item whose PersonalisedCards JSON.parse or `.selectedCards.map` rejects, or an
\* item with a settings blob {timestamp, selectedCards}
NoBlob == [kind |-> "none", selectedCards |-> <<>>]
Malformed == [kind |-> "malformed", selectedCards |-> <<>>]
Blob(selectedCards) == [kind |-> "ok", selectedCards |-> selectedCards]

CardIds == 1..MaxCards

\* ------------------------------------------------------------- sequences
Range(s) == {s[i] : i \in DOMAIN s}

\* Array.prototype.findIndex, 1-based; 0 stands for -1
FindIndex(s, id) ==
  IF \E i \in DOMAIN s : s[i].id = id
  THEN CHOOSE i \in DOMAIN s : s[i].id = id /\ \A j \in 1..(i-1) : s[j].id # id
  ELSE 0

\* Array.prototype.splice(i, 1) on a copy: the array without its i-th element
SpliceOut(s, i) == SubSeq(s, 1, i-1) \o SubSeq(s, i+1, Len(s))

\* Array.prototype.splice(i, 0, x) on a copy: x inserted so that it gets index i
\* (an index past the end appends)
SpliceIn(s, i, x) ==
  IF i > Len(s) THEN Append(s, x)
  ELSE SubSeq(s, 1, i-1) \o <<x>> \o SubSeq(s, i, Len(s))

\* Array.prototype.sort((a, b) => a.order - b.order): a stable insertion sort
RECURSIVE InsertByOrder(_, _)
InsertByOrder(sorted, c) ==
  IF sorted = <<>> THEN <<c>>
  ELSE IF sorted[Len(sorted)].order <= c.order THEN Append(sorted, c)
  ELSE Append(InsertByOrder(SubSeq(sorted, 1, Len(sorted)-1), c), sorted[Len(sorted)])

RECURSIVE SortByOrder(_)
SortByOrder(s) ==
  IF s = <<>> THEN <<>>
  ELSE InsertByOrder(SortByOrder(SubSeq(s, 1, Len(s)-1)), s[Len(s)])

VARIABLES
  masterList,            \* rows of MasterCardList, as the REST call returns them
  store,                 \* this user's records of UserSettingsList
  loadPc,                \* "cards" | "settings" | "done": loadCardsFromSharePoint
  initialCards,          \* cardsData handed to loadUserSettings
  cards,                 \* useState<ICard[]>
  originalCards,         \* useState<ICard[]>
  isCustomizePanelOpen,  \* useBoolean(false)
  activeCard,            \* useState<ICard | null>: the card being dragged
  saves,                 \* handleSave calls awaiting the store
  gridSlots,             \* gridSlots of the last render
  rendered,              \* the CardComponents of the last render, in order
  lastOp,                \* history: the handler that ran last, and how it ended
  openedWith,            \* history: `cards` when the customize panel was last opened
  ops                    \* user operations so far

\* one CardComponent of the grid, and the AdaptiveCardContentRenderer it mounts
VARIABLES
  cardViewJSON,          \* cardData.cardViewJSON: the card's JSON text
  isLoading,             \* CardComponent: useState<boolean>(true)
  contentType,           \* CardComponent: useState(...)('empty')
  parsedChartData,       \* CardComponent: useState<IChartData | null>(null)
  cardEffect,            \* CardComponent's useEffect is due (mount, or new text)
  rendererJson,          \* cardJson of the mounted renderer; NoRenderer if none
  parsedCard,            \* renderer: useState<ParsedCard | null>(null)
  error,                 \* renderer: useState<string | null>(null)
  rendererEffect,        \* the renderer's useEffect is due (mount, or new cardJson)
  content,               \* what the card shows: the last render of its subtree
  treeMounted,           \* the web part's React tree is mounted
  openPopovers,          \* PopoverRenderer: the buttons whose `open` is true
  executed,              \* the actions handed to onActionExecute, in order
  navigated,             \* the urls handed to window.open, in order
  updates,               \* changes of the card's JSON text so far
  clicks                 \* clicks on the card's buttons so far

cardVars == <<cardViewJSON, isLoading, contentType, parsedChartData, cardEffect,
              rendererJson, parsedCard, error, rendererEffect, content,
              treeMounted, openPopovers, executed, navigated, updates, clicks>>

dashboardVars == <<masterList, store, loadPc, initialCards, cards, originalCards,
                   isCustomizePanelOpen, activeCard, saves, gridSlots, rendered,
                   lastOp, openedWith, ops>>

\* one element handed to its component, outside any card
VARIABLES
  elementProp,           \* the `element` prop of ChartRenderer or of ProgressBar
  rendering              \* what the component returned; NotRendered before

elementVars == <<elementProp, rendering>>

vars == <<dashboardVars, cardVars, elementVars>>


\* ------------------------------------------------ loadCardsFromSharePoint
\* `item.DefaultOrder || index + 1`: a null or 0 DefaultOrder is falsy
OrDefault(v, dflt) == IF v = 0 THEN dflt ELSE v

\* items.map((item, index) => ...): one ICard per list row
CardsData(items) ==
  [i \in DOMAIN items |->
     [id           |-> items[i].Id,
      title        |-> items[i].Title,
      order        |-> OrDefault(items[i].DefaultOrder, i),
      visible      |-> items[i].Fixed,
      selected     |-> items[i].Fixed,
      fixed        |-> items[i].Fixed,
      defaultOrder |-> OrDefault(items[i].DefaultOrder, i)]]

\* ------------------------------------------------------- loadUserSettings
\* new Map(selectedCards.map(uc => [uc.id, uc])).get(id): the last entry wins;
\* NoCard stands for undefined
UserCardMapGet(selectedCards, id) ==
  IF \E k \in DOMAIN selectedCards : selectedCards[k].id = id
  THEN selectedCards[CHOOSE k \in DOMAIN selectedCards :
                        /\ selectedCards[k].id = id
                        /\ \A j \in (k+1)..Len(selectedCards) : selectedCards[j].id # id]
  ELSE NoCard

\* the card a fixed card becomes when user settings were found
SettingsFixedCard(card) == [card EXCEPT !.visible = TRUE, !.selected = TRUE]

\* variant of SettingsUserCard that keeps the card's own order, to show that C8
\* depends on the order being read from the settings
SettingsUserCardKeepingOrder(card, userSetting) ==
  [card EXCEPT !.visible  = (userSetting.id # 0),
               !.selected = (userSetting.id # 0)]

\* the card a non-fixed card becomes when user settings were found
SettingsUserCard(card, userSetting) ==
  [card EXCEPT !.visible  = (userSetting.id # 0),
               !.selected = (userSetting.id # 0),
               !.order    = IF userSetting.id # 0 THEN userSetting.order ELSE card.order]

\* variant of ApplyUserSettings without the `card.fixed` branch, to show that
\* C2 depends on it
ApplyUserSettingsIgnoringFixed(initial, selectedCards) ==
  [i \in DOMAIN initial |->
     SettingsUserCard(initial[i], UserCardMapGet(selectedCards, initial[i].id))]

\* initialCards.map(card => ...) with the user's settings
ApplyUserSettings(initial, selectedCards) ==
  [i \in DOMAIN initial |->
     IF initial[i].fixed
     THEN SettingsFixedCard(initial[i])
     ELSE SettingsUserCard(initial[i], UserCardMapGet(selectedCards, initial[i].id))]

\* `card.fixed || index < 4` (index is 0-based)
DefaultVisible(card, index) == card.fixed \/ index < Capacity

\* initialCards.map((card, index) => ...) when no user settings were found
DefaultVisibleCards(initial) ==
  [i \in DOMAIN initial |->
     [initial[i] EXCEPT !.visible  = DefaultVisible(initial[i], i - 1),
                        !.selected = DefaultVisible(initial[i], i - 1)]]

\* what loadUserSettings sets `cards` to, given the response of the store:
\* blob is the PersonalisedCards of data.value[0], NoBlob when the request
\* failed or returned no item
LoadedCards(initial, blob) ==
  IF blob.kind = "ok"
  THEN ApplyUserSettings(initial, blob.selectedCards)
  ELSE DefaultVisibleCards(initial)

\* ---------------------------------------------------- renderDashboardGrid
IsVisible(c) == c.visible
IsFixed(c) == c.fixed
IsNotFixed(c) == ~c.fixed
IsSelected(c) == c.selected
IsUserSelected(c) == ~c.fixed /\ c.selected

EmptySlots == [i \in 1..Capacity |-> NoCard]

\* `card.defaultOrder > 0 && card.defaultOrder <= 4`
InGrid(card) == card.defaultOrder > 0 /\ card.defaultOrder <= Capacity

\* fixedCards.forEach(card => { if (...) gridSlots[card.defaultOrder - 1] = card })
RECURSIVE PlaceFixed(_, _)
PlaceFixed(slots, fixedCards) ==
  IF fixedCards = <<>> THEN slots
  ELSE LET card == Head(fixedCards)
       IN PlaceFixed(IF InGrid(card)
                     THEN [slots EXCEPT ![card.defaultOrder] = card]
                     ELSE slots,
                     Tail(fixedCards))

\* variant of FillFree without the `gridSlots[i] === null` test, to show that C4
\* depends on it
RECURSIVE FillFreeOverwriting(_, _, _, _)
FillFreeOverwriting(slots, nonFixedCards, i, nonFixedIndex) ==
  IF ~(i <= Capacity /\ nonFixedIndex <= Len(nonFixedCards)) THEN slots
  ELSE FillFreeOverwriting([slots EXCEPT ![i] = nonFixedCards[nonFixedIndex]],
                           nonFixedCards, i + 1, nonFixedIndex + 1)

\* for (let i = 0; i < 4 && nonFixedIndex < nonFixedCards.length; i++) ...
\* (i and nonFixedIndex are 1-based here)
RECURSIVE FillFree(_, _, _, _)
FillFree(slots, nonFixedCards, i, nonFixedIndex) ==
  IF ~(i <= Capacity /\ nonFixedIndex <= Len(nonFixedCards)) THEN slots
  ELSE IF slots[i].id = 0
       THEN FillFree([slots EXCEPT ![i] = nonFixedCards[nonFixedIndex]],
                     nonFixedCards, i + 1, nonFixedIndex + 1)
       ELSE FillFree(slots, nonFixedCards, i + 1, nonFixedIndex)

\* gridSlots as renderDashboardGrid leaves it
GridSlots(cs) ==
  LET sortedCards   == SortByOrder(SelectSeq(cs, IsVisible))
      fixedCards    == SelectSeq(sortedCards, IsFixed)
      nonFixedCards == SelectSeq(sortedCards, IsNotFixed)
  IN FillFree(PlaceFixed(EmptySlots, fixedCards), nonFixedCards, 1, 1)

IsCard(c) == c.id # 0

\* gridSlots.filter(card => card !== null).map(card => <CardComponent key={card.id} .../>)
RenderedOf(slots) ==
  LET shown == SelectSeq(slots, IsCard)
  IN [i \in DOMAIN shown |-> shown[i].id]

\* ------------------------------------------------- handleSelectionChange
\* currentCards.map(card => card.id === cardId && !card.fixed ? {...card, selected} : card)
ToggledCards(currentCards, cardId, selected) ==
  [i \in DOMAIN currentCards |->
     IF currentCards[i].id = cardId /\ ~currentCards[i].fixed
     THEN [currentCards[i] EXCEPT !.selected = selected]
     ELSE currentCards[i]]

FixedCount(cs) == Len(SelectSeq(cs, IsFixed))
SelectableCount(cs) == Len(SelectSeq(cs, IsUserSelected))
RequiredSelections(cs) == Capacity - FixedCount(cs)

\* variant of ToggleRejected that compares with 4 instead of 4 - fixedCount, to
\* show that C3 depends on the limit
ToggleRejectedAgainstCapacity(currentCards, cardId, selected) ==
  SelectableCount(ToggledCards(currentCards, cardId, selected)) > Capacity

\* `newSelectableCount > requiredSelections`: the change is aborted
ToggleRejected(currentCards, cardId, selected) ==
  LET newCards == ToggledCards(currentCards, cardId, selected)
  IN SelectableCount(newCards) > RequiredSelections(newCards)

\* the updater passed to setCards
SelectionChange(currentCards, cardId, selected) ==
  IF ToggleRejected(currentCards, cardId, selected)
  THEN currentCards
  ELSE ToggledCards(currentCards, cardId, selected)

\* ---------------------------------------------------------- handleDragEnd
\* variant of Renumbered that keeps every card's order value, to show that
\* C30 depends on the renumbering
RenumberedKeepingOrder(newCards) == newCards

\* newCards.map((card, index) => ({...card, order: index + 1}))
Renumbered(newCards) ==
  [i \in DOMAIN newCards |-> [newCards[i] EXCEPT !.order = i]]

\* the updater passed to setCards
MovedCards(prevCards, activeId, overId) ==
  LET activeIndex == FindIndex(prevCards, activeId)
      overIndex   == FindIndex(prevCards, overId)
  IN IF activeIndex = 0 \/ overIndex = 0 THEN prevCards
     ELSE Renumbered(SpliceIn(SpliceOut(prevCards, activeIndex), overIndex,
                              prevCards[activeIndex]))

\* useDraggable({id: `card-${card.id}`}), useDroppable({id: `droppable-${card.id}`})
DraggableId(id) == <<"card-", id>>
DroppableId(id) == <<"droppable-", id>>

\* `active.id === over.id`
SameDndId(activeId, overId) == DraggableId(activeId) = DroppableId(overId)

\* the early returns of handleDragEnd; over = NoCard is a drop on no droppable
DragIgnored(active, over) ==
  \/ over.id = 0
  \/ SameDndId(active.id, over.id)
  \/ ~active.selected
  \/ ~over.selected

\* useDraggable({disabled: !canDrag}), canDrag = card.selected && !card.fixed
CanDrag(card) == card.selected /\ ~card.fixed

\* useDroppable({disabled: !card.selected})
CanDrop(card) == card.selected

\* ------------------------------------------------------------- handleSave
\* cards.map(card => ({...card, visible: card.selected}))
SaveUpdatedCards(cs) == [i \in DOMAIN cs |-> [cs[i] EXCEPT !.visible = cs[i].selected]]

\* variant of SaveRejected that counts the non-fixed cards only, to show that C6
\* depends on the count
SaveRejectedCountingUserCards(cs) == Len(SelectSeq(SaveUpdatedCards(cs), IsUserSelected)) > Capacity

\* `visibleCount > 4`
SaveRejected(cs) == Len(SelectSeq(SaveUpdatedCards(cs), IsVisible)) > Capacity

\* updatedCards.filter(c => c.selected).map((c, index) => ({id, title, order: index + 1}))
SelectedCardsForSaving(updatedCards) ==
  LET sel == SelectSeq(updatedCards, IsSelected)
  IN [i \in DOMAIN sel |-> [id |-> sel[i].id, title |-> sel[i].title, order |-> i]]


\* ------------------------------------------------------------ JSON values
\* A string is the sequence of its tokens ("Chart.Bar" is <<"Chart.", "Bar">>),
\* so that `startsWith` is computed and not assumed.
Undefined == [t |-> "undefined"]
Null == [t |-> "null"]
Num(n) == [t |-> "number", n |-> n]
Str(tokens) == [t |-> "string", s |-> tokens]
Arr(elements) == [t |-> "array", a |-> elements]
\* an object with none of the properties the components read
Object ==
  [t |-> "object", type |-> Undefined, version |-> Undefined, body |-> Undefined,
   items |-> Undefined, columns |-> Undefined, actions |-> Undefined,
   data |-> Undefined, content |-> Undefined, url |-> Undefined,
   title |-> Undefined]

Truthy(v) == v.t \notin {"undefined", "null"} /\ v # Str(<<>>) /\ v # Num(0)
IsArray(v) == v.t = "array"
IsString(v) == v.t = "string"
\* v[name] of a value that is neither null nor undefined
Prop(v, name) == IF v.t = "object" THEN v[name] ELSE Undefined
\* typeof v === 'object' && v !== null && name in v
HasProp(v, name) == v.t = "object" /\ v[name] # Undefined
StartsWith(v, prefix) == IsString(v) /\ Len(v.s) > 0 /\ v.s[1] = prefix
\* a || b
Or(a, b) == IF Truthy(a) THEN a ELSE b

\* the card's text: none (null or ''), text JSON.parse rejects, or the text
\* of a JSON value
NoText == [kind |-> "none"]
NotJson == [kind |-> "not json"]
TextOf(value) == [kind |-> "json", value |-> value]
\* an exception in place of a value or of a rendered node
Thrown == [t |-> "thrown", node |-> "thrown"]
\* JSON.parse: the value, or Thrown
JsonParse(text) == IF text.kind = "json" THEN text.value ELSE Thrown

\* ----------------------------------------------------------- CardComponent
IsChartType(type) == type = Str(<<"Chart">>) \/ (Truthy(type) /\ StartsWith(type, "Chart."))

RECURSIVE findChartElement(_)
\* the first item in document order that is a chart or holds one in its
\* items, body or columns[].items; Null if none
findChartElement(items) ==
  IF items = <<>> THEN Null
  ELSE LET item == Head(items)
           In(v) == IF IsArray(v) THEN findChartElement(v.a) ELSE Null
           RECURSIVE InColumns(_)
           InColumns(columns) ==
             IF columns = <<>> THEN Null
             ELSE IF HasProp(Head(columns), "items") /\ Truthy(In(Head(columns).items))
                  THEN In(Head(columns).items)
                  ELSE InColumns(Tail(columns))
       IN IF HasProp(item, "type") /\ IsChartType(item.type) THEN item
          ELSE IF HasProp(item, "items") /\ Truthy(In(item.items)) THEN In(item.items)
          ELSE IF HasProp(item, "body") /\ Truthy(In(item.body)) THEN In(item.body)
          ELSE IF HasProp(item, "columns") /\ IsArray(item.columns)
                  /\ Truthy(InColumns(item.columns.a))
               THEN InColumns(item.columns.a)
          ELSE findChartElement(Tail(items))

\* the types hasComplexElements compares `typedItem.type` with
ComplexTypes ==
  {<<"Table">>, <<"ImageSet">>, <<"ColumnSet">>, <<"Container">>, <<"Media">>,
   <<"FactSet">>, <<"RichTextBlock">>, <<"Input.", "Text">>, <<"Input.", "Number">>,
   <<"Input.", "Date">>, <<"Input.", "Time">>, <<"Input.", "Toggle">>,
   <<"Input.", "ChoiceSet">>}

IsComplexElement(item) ==
  /\ HasProp(item, "type")
  /\ \/ \E type \in ComplexTypes : item.type = Str(type)
     \/ item.type = Str(<<"ActionSet">>) /\ IsArray(item.actions) /\ Len(item.actions.a) > 0

hasComplexElements(body) == \E i \in DOMAIN body : IsComplexElement(body[i])

IsAdaptiveCard(json) ==
  Prop(json, "type") = Str(<<"AdaptiveCard">>) \/ Truthy(Prop(json, "version"))

\* setParsedChartData of a direct chart configuration
DirectChartData(json) ==
  [t |-> "object", type |-> json.type, data |-> Or(json.data, Arr(<<>>))]
\* setParsedChartData of a chart element found in the body
EmbeddedChartData(chartElement) ==
  [t |-> "object", type |-> Or(chartElement.type, Str(<<"Chart.", "Bar">>)),
   data |-> Or(chartElement.data, Arr(<<>>))]

\* the branches of the effect after the test of a direct chart configuration
ClassifiedByBody(json) ==
  IF Truthy(Prop(json, "body")) /\ IsArray(Prop(json, "body"))
  THEN IF Truthy(findChartElement(json.body.a))
       THEN [contentType |-> "chart",
             chartData |-> EmbeddedChartData(findChartElement(json.body.a))]
       ELSE IF hasComplexElements(json.body.a) \/ IsAdaptiveCard(json)
       THEN [contentType |-> "adaptiveCardContent", chartData |-> Null]
       ELSE [contentType |-> "adaptiveCard", chartData |-> Null]
  ELSE IF IsAdaptiveCard(json)
  THEN [contentType |-> "adaptiveCard", chartData |-> Null]
  ELSE [contentType |-> "error", chartData |-> Null]

IsDirectChart(json) ==
  Truthy(Prop(json, "type")) /\ StartsWith(Prop(json, "type"), "Chart.")

\* Classified with the body looked at before the top-level type
ClassifiedBodyFirst(json) ==
  IF IsArray(Prop(json, "body")) \/ ~IsDirectChart(json)
  THEN ClassifiedByBody(json)
  ELSE [contentType |-> "chart", chartData |-> DirectChartData(json)]

\* the body of the effect's try block, for a parsed value other than null:
\* the content type set, and the chart data set (Null if none is set)
Classified(json) ==
  IF IsDirectChart(json)
  THEN [contentType |-> "chart", chartData |-> DirectChartData(json)]
  ELSE ClassifiedByBody(json)

\* ClassifiedText with text that does not parse taken for no text
ClassifiedTextFailureAsEmpty(text) ==
  IF JsonParse(text) = Thrown \/ JsonParse(text) = Null
  THEN [contentType |-> "empty", chartData |-> Null]
  ELSE Classified(JsonParse(text))

\* the content type after the try/catch: JSON.parse throws on text that is not
\* JSON, and `json.type` throws on the value null
ClassifiedText(text) ==
  IF JsonParse(text) = Thrown \/ JsonParse(text) = Null
  THEN [contentType |-> "error", chartData |-> Null]
  ELSE Classified(JsonParse(text))

\* ------------------------------------------- AdaptiveCardContentRenderer
\* the `case` labels of renderElement that render a component without children
LeafTypes ==
  {<<"TextBlock">>, <<"TextRun">>, <<"Input.", "Text">>, <<"Input.", "Number">>,
   <<"Input.", "ChoiceSet">>, <<"Image">>, <<"ProgressBar">>, <<"CompoundButton">>,
   <<"Table">>}
\* the `case` labels of renderElement that render ChartRenderer
ChartTypes ==
  {<<"Chart">>, <<"Chart.", "Bar">>, <<"Chart.", "Line">>, <<"Chart.", "Pie">>,
   <<"Chart.", "Donut">>, <<"Chart.", "Doughnut">>, <<"Chart.", "VerticalBar">>,
   <<"Chart.", "HorizontalBar">>, <<"Chart.", "Gauge">>}
\* every `case` label of renderElement
KnownTypes ==
  LeafTypes \cup ChartTypes \cup {<<"Container">>, <<"ColumnSet">>, <<"ActionSet">>}

\* what a component renders: its element type and its children
Element(type, children) == [node |-> "element", type |-> type, children |-> children]
\* UnsupportedElement without the type in its text
UnsupportedElementWithoutType(type) == [node |-> "UnsupportedElement", type |-> Undefined]
\* "Unsupported element type: {type}"
UnsupportedElement(type) == [node |-> "UnsupportedElement", type |-> type]
Panel(text) == [node |-> "panel", text |-> text]
AnyThrown(nodes) == \E i \in DOMAIN nodes : nodes[i] = Thrown
\* x?.map(...): nothing for null and undefined, a TypeError for any other
\* value that is not an array
MapOrThrown(v, nodes) ==
  IF v.t \in {"undefined", "null"} THEN [thrown |-> FALSE, nodes |-> <<>>]
  ELSE IF ~IsArray(v) \/ AnyThrown(nodes) THEN [thrown |-> TRUE, nodes |-> <<>>]
  ELSE [thrown |-> FALSE, nodes |-> nodes]

\* ---- CustomChartRenderer
\* v[name] of an object that may lack the property
Field(v, name) == IF v.t = "object" /\ name \in DOMAIN v THEN v[name] ELSE Undefined
\* a ?? b
Coalesce(a, b) == IF a.t \in {"undefined", "null"} THEN b ELSE a

\* getInternalChartType with Chart.Donut and Chart.Doughnut drawn as pies
getInternalChartTypeDonutAsPie(chartType) ==
  IF chartType \in {Str(<<"Chart.", "Donut">>), Str(<<"Chart.", "Doughnut">>),
                    Str(<<"Chart.", "Pie">>)}
  THEN "pie"
  ELSE IF chartType = Str(<<"Chart.", "Line">>) THEN "line"
  ELSE "bar"

getInternalChartType(chartType) ==
  IF chartType \in {Str(<<"Chart.", "Donut">>), Str(<<"Chart.", "Doughnut">>)}
  THEN "doughnut"
  ELSE IF chartType = Str(<<"Chart.", "Pie">>) THEN "pie"
  ELSE IF chartType \in {Str(<<"Chart.", "VerticalBar">>), Str(<<"Chart.", "Bar">>),
                         Str(<<"Chart.", "HorizontalBar">>)}
  THEN "bar"
  ELSE IF chartType = Str(<<"Chart.", "Line">>) THEN "line"
  ELSE "bar"

\* `data.map(item => ...)` throws on data that is no array and on an item
\* that is null or undefined
ProcessDataThrows(data) ==
  ~IsArray(data) \/ \E i \in DOMAIN data.a : data.a[i].t \in {"null", "undefined"}

\* processData: the labels and the values of the one dataset
processData(chartType, data) ==
  IF chartType \in {"bar", "line"}
  THEN [labels |-> [i \in DOMAIN data.a |->
                      Or(Or(Field(data.a[i], "x"), Field(data.a[i], "legend")), Str(<<>>))],
        values |-> [i \in DOMAIN data.a |->
                      Or(Or(Field(data.a[i], "y"), Field(data.a[i], "value")), Num(0))]]
  ELSE [labels |-> [i \in DOMAIN data.a |-> Or(Field(data.a[i], "legend"), Str(<<>>))],
        values |-> [i \in DOMAIN data.a |-> Or(Field(data.a[i], "value"), Num(0))]]

\* renderChart: the react-chartjs-2 component that draws the chart
renderChart(chartType) ==
  CASE chartType = "doughnut" -> "Doughnut"
    [] chartType = "pie" -> "Pie"
    [] chartType = "line" -> "Line"
    [] OTHER -> "Bar"

\* what CustomChartRenderer returns for its props: processData() runs before
\* the test of Chart.Gauge
CustomChartRenderer(title, data, type) ==
  LET chartType == getInternalChartType(type)
  IN IF ProcessDataThrows(data) THEN Thrown
     ELSE IF type = Str(<<"Chart.", "Gauge">>)
     THEN Panel("Gauge charts are not supported in this component.")
     ELSE [node |-> "chart", backend |-> renderChart(chartType),
           type |-> type, title |-> title, data |-> data,
           processedData |-> processData(chartType, data)]

\* ChartRenderer: the props it hands to CustomChartRenderer
ChartRenderer(element) ==
  CustomChartRenderer(Or(Field(element, "title"), Str(<<>>)),
                      Or(Field(element, "data"), Arr(<<>>)),
                      Or(Field(element, "type"), Str(<<"Chart.", "Bar">>)))

\* ---- ProgressBar
\* Math.max and Math.min of two integers
MathMax(a, b) == IF a >= b THEN a ELSE b
MathMin(a, b) == IF a <= b THEN a ELSE b

\* the percentage as the quotient the code computes, num / den
Quotient(num, den) == [num |-> num, den |-> den]

\* ProgressBar without the clamp of the value
ProgressBarUnclamped(bar) ==
  LET min == Coalesce(Field(bar, "min"), Num(0)).n
      max == Coalesce(Field(bar, "max"), Num(100)).n
      value == Coalesce(Field(bar, "progressValue"), Num(0)).n
  IN [node |-> "ProgressBar", min |-> min, max |-> max, clampedValue |-> value,
      percentage |-> IF max > min THEN Quotient((value - min) * 100, max - min)
                     ELSE Quotient(0, 1)]

\* what ProgressBar shows for an element with integer min, max and progressValue
ProgressBar(bar) ==
  LET min == Coalesce(Field(bar, "min"), Num(0)).n
      max == Coalesce(Field(bar, "max"), Num(100)).n
      value == Coalesce(Field(bar, "progressValue"), Num(0)).n
      clampedValue == MathMin(MathMax(value, min), max)
  IN [node |-> "ProgressBar", min |-> min, max |-> max, clampedValue |-> clampedValue,
      percentage |-> IF max > min THEN Quotient((clampedValue - min) * 100, max - min)
                     ELSE Quotient(0, 1)]

\* ---- the element tree

RECURSIVE renderElement(_, _, _)
\* element.items?.map(item => renderElement(item)); `path` is the place of the
\* parent in the tree, `open` the places of the open popovers
RenderItems(items, path, open) ==
  MapOrThrown(items,
    IF IsArray(items)
    THEN [i \in DOMAIN items.a |-> renderElement(items.a[i], Append(path, i), open)]
    ELSE <<>>)

\* ColumnSet: element.columns?.map(column => column.items?.map(...))
RenderColumns(columns, path, open) ==
  MapOrThrown(columns,
    IF IsArray(columns)
    THEN [c \in DOMAIN columns.a |->
            IF columns.a[c].t \in {"null", "undefined"} THEN Thrown
            ELSE LET items == RenderItems(Prop(columns.a[c], "items"), Append(path, c), open)
                 IN IF items.thrown THEN Thrown
                    ELSE [node |-> "column", children |-> items.nodes]]
    ELSE <<>>)

\* ActionSet: a PopoverRenderer for an Action.Popover, a button for any other action
RenderAction(action, path, open) ==
  IF action.t \in {"null", "undefined"} THEN Thrown
  ELSE IF Prop(action, "type") = Str(<<"Action.", "Popover">>)
  THEN LET shown == IF path \in open /\ Truthy(Prop(action, "content"))
                    THEN <<renderElement(action.content, Append(path, 1), open)>>
                    ELSE <<>>
       IN IF AnyThrown(shown) THEN Thrown
          ELSE [node |-> "PopoverRenderer", action |-> action, path |-> path,
                open |-> path \in open, children |-> shown]
  ELSE [node |-> "button", action |-> action, path |-> path]

ActionSet(actions, path, open) ==
  LET buttons == MapOrThrown(actions,
                   IF IsArray(actions)
                   THEN [i \in DOMAIN actions.a |->
                           RenderAction(actions.a[i], Append(path, i), open)]
                   ELSE <<>>)
  IN IF buttons.thrown THEN Thrown ELSE Element(Str(<<"ActionSet">>), buttons.nodes)

renderElement(element, path, open) ==
  IF element.t \in {"null", "undefined"} THEN Thrown
  ELSE LET type == Prop(element, "type")
           In(children) == IF children.thrown THEN Thrown
                           ELSE Element(type, children.nodes)
       IN IF \E known \in LeafTypes : type = Str(known) THEN Element(type, <<>>)
          ELSE IF type = Str(<<"Container">>)
          THEN In(RenderItems(element.items, path, open))
          ELSE IF type = Str(<<"ColumnSet">>)
          THEN In(RenderColumns(element.columns, path, open))
          ELSE IF \E known \in ChartTypes : type = Str(known) THEN ChartRenderer(element)
          ELSE IF type = Str(<<"ActionSet">>) THEN ActionSet(element.actions, path, open)
          ELSE UnsupportedElement(type)

\* the last return of AdaptiveCardContentRenderer: the body, then the card's actions
RenderCard(card, open) ==
  LET body == RenderItems(Prop(card, "body"), <<1>>, open)
      actions == Prop(card, "actions")
      actionSet == IF Truthy(actions) /\ IsArray(actions) /\ Len(actions.a) > 0
                   THEN <<ActionSet(actions, <<2>>, open)>>
                   ELSE <<>>
  IN IF body.thrown \/ AnyThrown(actionSet) THEN Thrown
     ELSE [node |-> "card", children |-> body.nodes \o actionSet]

\* what AdaptiveCardContentRenderer returns
RendererView(useNativeRenderer, err, card, open) ==
  IF useNativeRenderer THEN [node |-> "NativeAdaptiveCardRenderer"]
  ELSE IF Truthy(err) THEN Panel("Failed to parse Adaptive Card JSON")
  ELSE IF ~Truthy(card) THEN Panel("Loading...")
  ELSE RenderCard(card, open)

\* CardComponent renders an AdaptiveCardContentRenderer
UsesRenderer(loading, type, chartData) ==
  /\ ~loading
  /\ \/ type = "chart" /\ Truthy(chartData)
     \/ type \in {"adaptiveCardContent", "adaptiveCard"}

\* renderCardContent
renderCardContent(loading, type, chartData, err, card, open) ==
  IF loading THEN Panel("Loading...")
  ELSE IF type = "empty" THEN Panel("No data available")
  ELSE IF type = "error" THEN Panel("Error loading card content")
  ELSE IF UsesRenderer(loading, type, chartData)
  THEN RendererView(type = "adaptiveCard", err, card, open)
  ELSE Panel("Unsupported content type")


\* ------------------------------------------------------- card documents
Elem(type) == [Object EXCEPT !.type = Str(type)]
Container(items) == [Elem(<<"Container">>) EXCEPT !.items = items]
ColumnSet(columns) == [Elem(<<"ColumnSet">>) EXCEPT !.columns = columns]
Column(items) == [Object EXCEPT !.items = items]
Action(type) == [Object EXCEPT !.type = Str(<<"Action.", type>>)]
SomeUrl == Str(<<"https://", "contoso">>)

\* element types no component reads: one outside every vocabulary, and a chart
\* tag renderElement has no `case` for
OtherTypes == {<<"Carousel">>, <<"Chart.", "Area">>}

\* one element of every type, with no other property
LeafElements ==
  {Elem(type) : type \in (KnownTypes \cup ComplexTypes \cup OtherTypes)
                            \ {<<"Container">>, <<"ColumnSet">>, <<"ActionSet">>}}

\* body entries and properties of the wrong shape
OddElements ==
  {Null, Str(<<"text">>), Object,
   Container(Str(<<"text">>)), ColumnSet(Arr(<<Null>>)),
   [Elem(<<"Chart.", "Bar">>) EXCEPT !.data = Str(<<"text">>)],
   [Elem(<<"Chart.", "Pie">>) EXCEPT !.data = Arr(<<Null>>)],
   [Elem(<<"Chart.", "Line">>) EXCEPT !.data = Arr(<<Object>>)]}

\* the elements bodies of several entries and containers are built from
CoreElements ==
  {Elem(<<"TextBlock">>), Elem(<<"Carousel">>), Elem(<<"FactSet">>),
   Elem(<<"Chart.", "Bar">>), Null}

RECURSIVE Nested(_)
\* the core elements, alone or inside up to `depth` containers
Nested(depth) ==
  IF depth = 0 THEN CoreElements
  ELSE CoreElements
         \cup {Container(Arr(<<e>>)) : e \in Nested(depth - 1)}
         \cup {ColumnSet(Arr(<<Column(Arr(<<e>>))>>)) : e \in Nested(depth - 1)}

Actions ==
  {Action("OpenUrl"), [Action("OpenUrl") EXCEPT !.url = SomeUrl],
   Action("ShowCard"), Action("Execute"), Action("Submit"), Action("Custom"),
   Action("Popover"), [Action("Popover") EXCEPT !.content = Elem(<<"Carousel">>)]}

ActionSets ==
  {Elem(<<"ActionSet">>), [Elem(<<"ActionSet">>) EXCEPT !.actions = Arr(<<>>)]}
    \cup {[Elem(<<"ActionSet">>) EXCEPT !.actions = Arr(<<a>>)] : a \in Actions}

RECURSIVE SeqsUpTo(_, _)
SeqsUpTo(S, n) ==
  IF n = 0 THEN {<<>>}
  ELSE SeqsUpTo(S, n - 1) \cup {Append(s, e) : s \in SeqsUpTo(S, n - 1), e \in S}

Bodies ==
  SeqsUpTo(CoreElements, MaxBodyLen)
    \cup SeqsUpTo(LeafElements \cup OddElements \cup Nested(MaxDepth) \cup ActionSets, 1)

\* documents with every combination of type, version and body
BodyDocuments ==
  {[Object EXCEPT !.type = type, !.version = version, !.body = body] :
     type \in {Undefined, Num(7), Str(<<"AdaptiveCard">>), Str(<<"Message">>),
               Str(<<"Chart.", "Bar">>), Str(<<"Chart.", "Area">>)},
     version \in {Undefined, Str(<<"1.5">>)},
     body \in {Undefined, Str(<<"text">>)} \cup {Arr(b) : b \in Bodies}}

\* Adaptive Cards with actions of their own, and direct chart configurations
\* with a data property
OtherDocuments ==
  {[Elem(<<"AdaptiveCard">>) EXCEPT !.body = Arr(<<Elem(<<"TextBlock">>)>>),
                                    !.actions = Arr(actions)] :
     actions \in SeqsUpTo(Actions, MaxBodyLen) \ {<<>>}}
    \cup {[Elem(<<"Chart.", "Bar">>) EXCEPT !.data = data] :
            data \in {Str(<<"text">>), Arr(<<Null>>), Arr(<<Object>>)}}

\* the texts a card is mounted with
CardTexts ==
  {NoText, NotJson, TextOf(Null), TextOf(Num(7))}
    \cup {TextOf(json) : json \in BodyDocuments \cup OtherDocuments}

\* the texts a mounted card's text changes to
UpdateTexts ==
  {NoText, NotJson,
   TextOf(Elem(<<"Chart.", "Bar">>)),
   TextOf([Elem(<<"AdaptiveCard">>) EXCEPT !.body = Arr(<<Elem(<<"TextBlock">>)>>)]),
   TextOf([Object EXCEPT !.version = Str(<<"1.5">>)])}

\* -------------------------------------------------- the card's React tree
NoRenderer == [kind |-> "no renderer"]

RECURSIVE Buttons(_)
\* the buttons and popover buttons of a rendered subtree
Buttons(node) ==
  IF node.node = "button" THEN {node}
  ELSE IF node.node \in {"PopoverRenderer", "element", "card", "column"}
  THEN (IF node.node = "PopoverRenderer" THEN {node} ELSE {})
         \cup UNION {Buttons(node.children[i]) : i \in DOMAIN node.children}
  ELSE {}

\* no card is mounted
CardIdle ==
  /\ cardViewJSON = NoText
  /\ isLoading = TRUE
  /\ contentType = "empty"
  /\ parsedChartData = Null
  /\ cardEffect = FALSE
  /\ rendererJson = NoRenderer
  /\ parsedCard = Null
  /\ error = Null
  /\ rendererEffect = FALSE
  /\ content = Panel("Loading...")
  /\ treeMounted = TRUE
  /\ openPopovers = {}
  /\ executed = <<>>
  /\ navigated = <<>>
  /\ updates = 0
  /\ clicks = 0

NotRendered == [node |-> "none"]

\* no element is rendered on its own
ElementIdle ==
  /\ elementProp = Null
  /\ rendering = NotRendered


\* ------------------------------------------------------------ environment
\* MasterCardList: any subset of the rows 1..MaxCards, each fixed or not, in
\* the order of `$orderby=DefaultOrder`
RowsOf(kind) ==
  LET present == {i \in CardIds : kind[i] # "absent"}
      RECURSIVE Rows(_)
      Rows(n) ==
        IF n = 0 THEN <<>>
        ELSE IF n \in present
             THEN Append(Rows(n-1), [Id |-> n, Title |-> n, Fixed |-> (kind[n] = "fixed"),
                                     DefaultOrder |-> n])
             ELSE Rows(n-1)
  IN Rows(MaxCards)

MasterLists == {RowsOf(kind) : kind \in [CardIds -> {"absent", "fixed", "free"}]}

\* settings blobs as an earlier handleSave wrote them (distinct cards numbered
\* 1..n): the n last rows of the list, in reverse order
SavedSelections ==
  {[i \in 1..n |-> [id |-> MaxCards + 1 - i, title |-> MaxCards + 1 - i, order |-> i]] :
     n \in 0..MaxBlobLen}

InitialStores ==
  {<<>>} \cup {<<[Id |-> 1, PersonalisedCards |-> b]>> :
                 b \in {Malformed} \cup {Blob(sc) : sc \in SavedSelections}}

\* one render of the component: renderDashboardGrid() on the new `cards`
Render(newCards) ==
  /\ gridSlots' = GridSlots(newCards)
  /\ rendered' = RenderedOf(GridSlots(newCards))

Op(op, result) == [op |-> op, result |-> result]

Init ==
  /\ masterList \in MasterLists
  /\ store \in InitialStores
  /\ loadPc = "cards"
  /\ initialCards = <<>>
  /\ cards = <<>>
  /\ originalCards = <<>>
  /\ isCustomizePanelOpen = FALSE
  /\ activeCard = NoCard
  /\ saves = <<>>
  /\ gridSlots = GridSlots(<<>>)
  /\ rendered = <<>>
  /\ lastOp = Op("mount", "ok")
  /\ openedWith = <<>>
  /\ ops = 0
  /\ CardIdle
  /\ ElementIdle

\* --------------------------------------------------------------- actions
\* one more user operation, within the budget of the behaviour
UserOp ==
  /\ ops < MaxOps
  /\ ops' = ops + 1

\* loadCardsFromSharePoint up to `await loadUserSettings(cardsData)`
LoadCardsOk ==
  /\ loadPc = "cards"
  /\ initialCards' = CardsData(masterList)
  /\ loadPc' = "settings"
  /\ UNCHANGED <<cardVars, elementVars, openedWith, masterList, store, cards, originalCards, isCustomizePanelOpen,
                 activeCard, saves, gridSlots, rendered, lastOp, ops>>

\* loadCardsFromSharePoint: the request throws or `!response.ok`
LoadCardsFail ==
  /\ loadPc = "cards"
  /\ cards' = <<>>
  /\ Render(<<>>)
  /\ loadPc' = "done"
  /\ lastOp' = Op("load", "failed")
  /\ UNCHANGED <<cardVars, elementVars, openedWith, masterList, store, initialCards, originalCards,
                 isCustomizePanelOpen, activeCard, saves, ops>>

\* the PersonalisedCards loadUserSettings reads: `$filter=UserID eq ...&$top=1`
StoredBlob(readOk) ==
  IF readOk /\ store # <<>> THEN store[1].PersonalisedCards ELSE NoBlob

\* loadUserSettings from the response of the settings request on
LoadUserSettings ==
  /\ loadPc = "settings"
  /\ \E readOk \in BOOLEAN :
       LET updatedCards == LoadedCards(initialCards, StoredBlob(readOk))
       IN /\ cards' = updatedCards
          /\ originalCards' = updatedCards
          /\ Render(updatedCards)
          /\ lastOp' = Op("load", IF StoredBlob(readOk).kind = "ok"
                                  THEN "settings" ELSE "default")
  /\ loadPc' = "done"
  /\ initialCards' = <<>>
  /\ UNCHANGED <<cardVars, elementVars, openedWith, masterList, store, isCustomizePanelOpen,
                 activeCard, saves, ops>>

handleOpenCustomizePanel ==
  /\ ~isCustomizePanelOpen
  /\ activeCard.id = 0
  /\ UserOp
  /\ originalCards' = cards
  /\ openedWith' = cards
  /\ isCustomizePanelOpen' = TRUE
  /\ lastOp' = Op("open", "ok")
  /\ UNCHANGED <<cardVars, elementVars, masterList, store, loadPc, initialCards, cards, activeCard,
                 saves, gridSlots, rendered>>

handleCancel ==
  /\ isCustomizePanelOpen
  /\ activeCard.id = 0
  /\ UserOp
  /\ cards' = originalCards
  /\ Render(originalCards)
  /\ isCustomizePanelOpen' = FALSE
  /\ lastOp' = Op("cancel", "ok")
  /\ UNCHANGED <<cardVars, elementVars, openedWith, masterList, store, loadPc, initialCards, originalCards,
                 activeCard, saves>>

handleSelectionChange(cardId, selected) ==
  /\ isCustomizePanelOpen
  /\ activeCard.id = 0
  /\ UserOp
  /\ cards' = SelectionChange(cards, cardId, selected)
  /\ Render(SelectionChange(cards, cardId, selected))
  /\ lastOp' = Op("toggle", IF ToggleRejected(cards, cardId, selected)
                            THEN "rejected" ELSE "applied")
  /\ UNCHANGED <<cardVars, elementVars, openedWith, masterList, store, loadPc, initialCards, originalCards,
                 isCustomizePanelOpen, activeCard, saves>>

handleDragStart(card) ==
  /\ isCustomizePanelOpen
  /\ activeCard.id = 0
  /\ CanDrag(card)
  /\ UserOp
  /\ activeCard' = card
  /\ lastOp' = Op("dragStart", "ok")
  /\ UNCHANGED <<cardVars, elementVars, openedWith, masterList, store, loadPc, initialCards, cards, originalCards,
                 isCustomizePanelOpen, saves, gridSlots, rendered>>

\* the droppables a drag can end over: none, or an enabled droppable
DropTargets == {NoCard} \cup {c \in Range(cards) : CanDrop(c)}

\* active.data.current.card: the dragged card as of the last render
ActiveData ==
  IF FindIndex(cards, activeCard.id) # 0
  THEN cards[FindIndex(cards, activeCard.id)]
  ELSE activeCard

DragEndCards(prevCards, active, over) ==
  IF DragIgnored(active, over) THEN prevCards
  ELSE MovedCards(prevCards, active.id, over.id)

handleDragEnd(over) ==
  /\ activeCard.id # 0
  /\ activeCard' = NoCard
  /\ cards' = DragEndCards(cards, ActiveData, over)
  /\ Render(DragEndCards(cards, ActiveData, over))
  /\ lastOp' = Op("dragEnd", IF DragIgnored(ActiveData, over)
                             THEN "ignored" ELSE "reordered")
  /\ UNCHANGED <<cardVars, elementVars, openedWith, masterList, store, loadPc, initialCards, originalCards,
                 isCustomizePanelOpen, saves, ops>>

\* handleSave up to `await spHttpClient.get(...)`
handleSave ==
  /\ isCustomizePanelOpen
  /\ activeCard.id = 0
  /\ UserOp
  /\ IF SaveRejected(cards)
     THEN /\ lastOp' = Op("save", "alert: up to 4 cards")
          /\ UNCHANGED <<cards, saves, gridSlots, rendered>>
     ELSE /\ cards' = SaveUpdatedCards(cards)
          /\ Render(SaveUpdatedCards(cards))
          /\ saves' = Append(saves,
                             [pc |-> "get", existingItemId |-> 0,
                              selectedCards |-> SelectedCardsForSaving(SaveUpdatedCards(cards))])
          /\ lastOp' = Op("save", "started")
  /\ UNCHANGED <<cardVars, elementVars, openedWith, masterList, store, loadPc, initialCards, originalCards,
                 isCustomizePanelOpen, activeCard>>

\* the end of handleSave: `dismissCustomizePanel()`, after the alert if `failed`
SaveEnds(i, failed) ==
  /\ saves' = SpliceOut(saves, i)
  /\ isCustomizePanelOpen' = FALSE
  /\ lastOp' = Op("saveEnd", IF failed THEN "alert: error saving" ELSE "no alert")

\* handleSave from the response of the lookup to the write request (or to its end)
SaveGetDone(i) ==
  /\ saves[i].pc = "get"
  /\ \E response \in {"throws", "not ok", "ok"} :
       IF response = "ok"
       THEN /\ saves' = [saves EXCEPT ![i].pc = IF store # <<>> THEN "merge" ELSE "insert",
                                      ![i].existingItemId =
                                          IF store # <<>> THEN store[1].Id ELSE 0]
            /\ UNCHANGED <<isCustomizePanelOpen, lastOp>>
       ELSE SaveEnds(i, response = "throws")
  /\ UNCHANGED <<cardVars, elementVars, openedWith, masterList, store, loadPc, initialCards, cards, originalCards,
                 activeCard, gridSlots, rendered, ops>>

\* the list after the write request of a save: MERGE into item existingItemId,
\* or a new item
Written(records, save) ==
  IF save.pc = "merge"
  THEN [k \in DOMAIN records |->
          IF records[k].Id = save.existingItemId
          THEN [records[k] EXCEPT !.PersonalisedCards = Blob(save.selectedCards)]
          ELSE records[k]]
  ELSE Append(records, [Id |-> Len(records) + 1,
                        PersonalisedCards |-> Blob(save.selectedCards)])

\* handleSave from the response of the write request on; the response's status
\* is not looked at
SavePostDone(i) ==
  /\ saves[i].pc \in {"merge", "insert"}
  /\ \E response \in {"throws", "not ok", "ok"} :
       /\ store' = IF response = "ok" THEN Written(store, saves[i]) ELSE store
       /\ SaveEnds(i, response = "throws")
  /\ UNCHANGED <<cardVars, elementVars, openedWith, masterList, loadPc, initialCards, cards, originalCards,
                 activeCard, gridSlots, rendered, ops>>

\* the page is loaded again: a new component instance, and its mount effect
Remount ==
  /\ loadPc = "done"
  /\ saves = <<>>
  /\ UserOp
  /\ loadPc' = "cards"
  /\ initialCards' = <<>>
  /\ cards' = <<>>
  /\ originalCards' = <<>>
  /\ isCustomizePanelOpen' = FALSE
  /\ activeCard' = NoCard
  /\ Render(<<>>)
  /\ lastOp' = Op("mount", "ok")
  /\ openedWith' = <<>>
  /\ UNCHANGED <<cardVars, elementVars, masterList, store, saves>>

Next ==
  \/ LoadCardsOk
  \/ LoadCardsFail
  \/ LoadUserSettings
  \/ handleOpenCustomizePanel
  \/ handleCancel
  \/ \E c \in Range(cards), selected \in BOOLEAN : handleSelectionChange(c.id, selected)
  \/ \E c \in Range(cards) : handleDragStart(c)
  \/ \E over \in DropTargets : handleDragEnd(over)
  \/ handleSave
  \/ \E i \in DOMAIN saves : SaveGetDone(i)
  \/ \E i \in DOMAIN saves : SavePostDone(i)
  \/ Remount

Spec == Init /\ [][Next]_vars


\* ------------------------------------------------- the load path alone
\* MasterCardList with any DefaultOrder column: empty (0), a grid slot
\* (1..Capacity) or past the grid (Capacity + 1), ties included, ascending as
\* `$orderby=DefaultOrder` returns it
OrderedLists ==
  LET Last(l) == IF l = <<>> THEN 0 ELSE l[Len(l)].DefaultOrder
      RECURSIVE Lists(_)
      Lists(n) ==
        IF n = 0 THEN {<<>>}
        ELSE UNION {{Append(l, [Id |-> n, Title |-> n, Fixed |-> fx, DefaultOrder |-> d]) :
                       fx \in BOOLEAN, d \in Last(l)..(Capacity + 1)} :
                    l \in Lists(n - 1)}
  IN UNION {Lists(n) : n \in 0..MaxCards}

InitLoad ==
  /\ masterList \in OrderedLists
  /\ store \in InitialStores
  /\ loadPc = "cards"
  /\ initialCards = <<>>
  /\ cards = <<>>
  /\ originalCards = <<>>
  /\ isCustomizePanelOpen = FALSE
  /\ activeCard = NoCard
  /\ saves = <<>>
  /\ gridSlots = GridSlots(<<>>)
  /\ rendered = <<>>
  /\ lastOp = Op("mount", "ok")
  /\ openedWith = <<>>
  /\ ops = 0
  /\ CardIdle
  /\ ElementIdle

NextLoad ==
  \/ LoadCardsOk
  \/ LoadCardsFail
  \/ LoadUserSettings

\* the mount effect on any card list and settings record, up to the first render
\* of the loaded cards
SpecLoad == InitLoad /\ [][NextLoad]_vars

\* ------------------------------------------ the selection of loaded cards
\* MasterCardList with up to MaxRows rows, each fixed or not, DefaultOrder 1..n
NumberedLists ==
  UNION {{[i \in 1..n |-> [Id |-> i, Title |-> i, Fixed |-> fixed[i], DefaultOrder |-> i]] :
            fixed \in [1..n -> BOOLEAN]} :
         n \in 0..MaxRows}

InitToggle ==
  /\ masterList \in NumberedLists
  /\ store \in InitialStores
  /\ loadPc = "cards"
  /\ initialCards = <<>>
  /\ cards = <<>>
  /\ originalCards = <<>>
  /\ isCustomizePanelOpen = FALSE
  /\ activeCard = NoCard
  /\ saves = <<>>
  /\ gridSlots = GridSlots(<<>>)
  /\ rendered = <<>>
  /\ lastOp = Op("mount", "ok")
  /\ openedWith = <<>>
  /\ ops = 0
  /\ CardIdle
  /\ ElementIdle

NextToggle ==
  \/ LoadCardsOk
  \/ LoadUserSettings
  \/ handleOpenCustomizePanel
  \/ \E c \in Range(cards), selected \in BOOLEAN : handleSelectionChange(c.id, selected)

\* the mount effect on a card list of up to MaxRows rows, then the customize
\* panel and its checkboxes
SpecToggle == InitToggle /\ [][NextToggle]_vars

\* ------------------------------------------------------ one card's subtree
\* The commit of a render of the card: the renderer is mounted when
\* renderCardContent starts to return one (its state is the initial one and its
\* effect is due), keeps its state while it stays, and loses it when a panel is
\* returned instead.  An error thrown while rendering reaches no error boundary:
\* React unmounts the whole tree of the web part.
Commit(text, loading, type, chartData, err, card, open, effectDue) ==
  LET uses == UsesRenderer(loading, type, chartData)
      kept == uses /\ rendererJson # NoRenderer
      err1 == IF kept THEN err ELSE Null
      card1 == IF kept THEN card ELSE Null
      open1 == IF kept THEN open ELSE {}
      view == renderCardContent(loading, type, chartData, err1, card1, open1)
  IN /\ rendererJson' = IF uses THEN text ELSE NoRenderer
     /\ rendererEffect' = (uses /\ (~kept \/ effectDue \/ text # rendererJson))
     /\ error' = err1
     /\ parsedCard' = card1
     /\ content' = view
     /\ treeMounted' = (view # Thrown)
     /\ openPopovers' = IF view = Thrown THEN {}
                        ELSE {b.path : b \in {n \in Buttons(view) : n.node = "PopoverRenderer"}}
                               \cap open1

\* CardComponent's useEffect; a child's effect runs before its parent's
CardEffect ==
  /\ treeMounted
  /\ cardEffect
  /\ ~rendererEffect
  /\ cardEffect' = FALSE
  /\ isLoading' = FALSE
  /\ LET set == ClassifiedText(cardViewJSON)
         type == IF cardViewJSON = NoText THEN contentType ELSE set.contentType
         chartData == IF cardViewJSON = NoText \/ set.chartData = Null
                      THEN parsedChartData ELSE set.chartData
     IN /\ contentType' = type
        /\ parsedChartData' = chartData
        /\ Commit(cardViewJSON, FALSE, type, chartData, error, parsedCard,
                  openPopovers, rendererEffect)
  /\ UNCHANGED <<dashboardVars, elementVars, cardViewJSON, executed, navigated, updates, clicks>>

\* AdaptiveCardContentRenderer's useEffect
RendererEffect ==
  /\ treeMounted
  /\ rendererEffect
  /\ LET json == JsonParse(rendererJson)
         card == IF rendererJson = NoText \/ json = Thrown THEN parsedCard ELSE json
         err == IF rendererJson = NoText THEN error
                ELSE IF json = Thrown THEN Str(<<"Failed to parse Adaptive Card JSON">>)
                ELSE Null
     IN Commit(rendererJson, isLoading, contentType, parsedChartData, err, card,
               openPopovers, FALSE)
  /\ UNCHANGED <<dashboardVars, elementVars, cardViewJSON, isLoading, contentType, parsedChartData,
                 cardEffect, executed, navigated, updates, clicks>>

\* the dashboard renders the card with another cardViewJSON
SetCardViewJSON(text) ==
  /\ treeMounted
  /\ ~cardEffect /\ ~rendererEffect
  /\ updates < MaxUpdates
  /\ text # cardViewJSON
  /\ updates' = updates + 1
  /\ cardViewJSON' = text
  /\ cardEffect' = TRUE
  /\ Commit(text, isLoading, contentType, parsedChartData, error, parsedCard,
            openPopovers, FALSE)
  /\ UNCHANGED <<dashboardVars, elementVars, isLoading, contentType, parsedChartData,
                 executed, navigated, clicks>>

\* handleActionClick with OpenUrl actions handed to onActionExecute as well
ForwardsOpenUrl(action) == Prop(action, "type") # Str(<<"Action.", "Popover">>)
\* handleActionClick hands the action to onActionExecute
Forwards(action) ==
  /\ Prop(action, "type") # Str(<<"Action.", "OpenUrl">>)
  /\ Prop(action, "type") # Str(<<"Action.", "Popover">>)

\* handleActionClick hands the action's url to window.open
OpensUrl(action) ==
  Prop(action, "type") = Str(<<"Action.", "OpenUrl">>) /\ Truthy(Prop(action, "url"))

\* a click on a button of an ActionSet: handleActionClick(action)
ActionClick(button) ==
  /\ treeMounted
  /\ ~cardEffect /\ ~rendererEffect
  /\ clicks < MaxClicks
  /\ button.node = "button"
  /\ clicks' = clicks + 1
  /\ executed' = IF Forwards(button.action) THEN Append(executed, button.action)
                 ELSE executed
  /\ navigated' = IF OpensUrl(button.action) THEN Append(navigated, button.action.url)
                  ELSE navigated
  /\ UNCHANGED <<dashboardVars, elementVars, cardViewJSON, isLoading, contentType, parsedChartData,
                 cardEffect, rendererJson, parsedCard, error, rendererEffect, content,
                 treeMounted, openPopovers, updates>>

\* a click on the button of a PopoverRenderer: handleButtonClick
PopoverClick(button) ==
  /\ treeMounted
  /\ ~cardEffect /\ ~rendererEffect
  /\ clicks < MaxClicks
  /\ button.node = "PopoverRenderer"
  /\ clicks' = clicks + 1
  /\ Commit(rendererJson, isLoading, contentType, parsedChartData, error, parsedCard,
            IF button.open THEN openPopovers \ {button.path}
            ELSE openPopovers \cup {button.path}, FALSE)
  /\ UNCHANGED <<dashboardVars, elementVars, cardViewJSON, isLoading, contentType, parsedChartData,
                 cardEffect, executed, navigated, updates>>

\* a card of the grid is mounted with any text
InitCard ==
  /\ masterList = <<>>
  /\ store = <<>>
  /\ loadPc = "cards"
  /\ initialCards = <<>>
  /\ cards = <<>>
  /\ originalCards = <<>>
  /\ isCustomizePanelOpen = FALSE
  /\ activeCard = NoCard
  /\ saves = <<>>
  /\ gridSlots = GridSlots(<<>>)
  /\ rendered = <<>>
  /\ lastOp = Op("mount", "ok")
  /\ openedWith = <<>>
  /\ ops = 0
  /\ cardViewJSON \in CardTexts
  /\ isLoading = TRUE
  /\ contentType = "empty"
  /\ parsedChartData = Null
  /\ cardEffect = TRUE
  /\ rendererJson = NoRenderer
  /\ parsedCard = Null
  /\ error = Null
  /\ rendererEffect = FALSE
  /\ content = Panel("Loading...")
  /\ treeMounted = TRUE
  /\ openPopovers = {}
  /\ executed = <<>>
  /\ navigated = <<>>
  /\ updates = 0
  /\ clicks = 0
  /\ ElementIdle

NextCard ==
  \/ CardEffect
  \/ RendererEffect
  \/ \E text \in UpdateTexts : SetCardViewJSON(text)
  \/ \E button \in Buttons(content) : ActionClick(button)
  \/ \E button \in Buttons(content) : PopoverClick(button)

\* a CardComponent from its mount on: its effects, changes of its text and
\* clicks on the buttons it renders
SpecCard == InitCard /\ [][NextCard]_vars



\* ------------------------------------------- one element and its component
DataPoint(x, y, legend, value) ==
  [t |-> "object", x |-> x, y |-> y, legend |-> legend, value |-> value]

\* data points with every combination of absent, falsy and truthy properties
DataPoints ==
  {DataPoint(x, y, legend, value) :
     x \in {Undefined, Str(<<>>), Str(<<"Q1">>)},
     y \in {Undefined, Num(0), Num(10)},
     legend \in {Undefined, Str(<<"North">>)},
     value \in {Undefined, Num(5)}}

QuarterlyData ==
  <<DataPoint(Str(<<"Q1">>), Num(10), Undefined, Undefined),
    DataPoint(Str(<<"Q2">>), Num(20), Undefined, Undefined)>>

\* the points series of several points are built from
CorePoints ==
  {DataPoint(Str(<<"Q1">>), Num(10), Undefined, Undefined),
   DataPoint(Undefined, Undefined, Str(<<"North">>), Num(5)),
   DataPoint(Undefined, Num(0), Undefined, Num(5)),
   DataPoint(Str(<<>>), Undefined, Str(<<"North">>), Undefined),
   DataPoint(Undefined, Undefined, Undefined, Undefined)}

DataSeries ==
  SeqsUpTo(CorePoints, MaxPoints) \cup SeqsUpTo(DataPoints, 1) \cup {QuarterlyData}

\* the chart tags renderElement hands to ChartRenderer, one it does not, and
\* no type at all
ChartKinds ==
  {Str(type) : type \in ChartTypes \cup {<<"Chart.", "Area">>}} \cup {Undefined}

ChartElement(type, title, data) ==
  [Object EXCEPT !.type = type, !.title = title, !.data = data]

ChartElements ==
  {ChartElement(type, Str(<<"Sales">>), Arr(data)) :
     type \in ChartKinds, data \in DataSeries}
    \cup {ChartElement(type, Undefined, data) :
            type \in ChartKinds,
            data \in {Undefined, Null, Str(<<"text">>), Arr(<<Null>>), Arr(<<Num(7)>>)}}

\* integers around the defaults of min and of max
ProgressNumbers ==
  {Num(n) : n \in (-MaxProgress..MaxProgress)
                    \cup ((100 - MaxProgress)..(100 + MaxProgress))}

ProgressBarElements ==
  {[t |-> "object", type |-> Str(<<"ProgressBar">>), min |-> min, max |-> max,
    progressValue |-> progressValue] :
     min \in ProgressNumbers \cup {Undefined, Null},
     max \in ProgressNumbers \cup {Undefined, Null},
     progressValue \in ProgressNumbers \cup {Undefined, Null}}

IsProgressBar(e) == Field(e, "type") = Str(<<"ProgressBar">>)

\* React renders <ChartRenderer element={...} />
RenderChartRenderer ==
  /\ rendering = NotRendered
  /\ ~IsProgressBar(elementProp)
  /\ rendering' = ChartRenderer(elementProp)
  /\ UNCHANGED <<dashboardVars, cardVars, elementProp>>

\* React renders <ProgressBar element={...} />
RenderProgressBar ==
  /\ rendering = NotRendered
  /\ IsProgressBar(elementProp)
  /\ rendering' = ProgressBar(elementProp)
  /\ UNCHANGED <<dashboardVars, cardVars, elementProp>>

InitElement ==
  /\ masterList = <<>>
  /\ store = <<>>
  /\ loadPc = "cards"
  /\ initialCards = <<>>
  /\ cards = <<>>
  /\ originalCards = <<>>
  /\ isCustomizePanelOpen = FALSE
  /\ activeCard = NoCard
  /\ saves = <<>>
  /\ gridSlots = GridSlots(<<>>)
  /\ rendered = <<>>
  /\ lastOp = Op("mount", "ok")
  /\ openedWith = <<>>
  /\ ops = 0
  /\ CardIdle
  /\ elementProp \in ChartElements \cup ProgressBarElements
  /\ rendering = NotRendered

NextElement ==
  \/ RenderChartRenderer
  \/ RenderProgressBar

\* ChartRenderer and ProgressBar on any element: the components are functions
\* of their props
SpecElement == InitElement /\ [][NextElement]_vars


\* ------------------------------------------------------------ properties
CardById(id) == cards[FindIndex(cards, id)]

\* the number of selected non-fixed cards after card c's `selected` is set to sel
SelectableAfter(c, sel) ==
  SelectableCount(cards)
    - (IF ~c.fixed /\ c.selected THEN 1 ELSE 0)
    + (IF ~c.fixed /\ sel THEN 1 ELSE 0)

\* C1: in every reachable state at most 4 (the grid capacity) cards are visible.
C1_VisibleWithinCapacity == Len(SelectSeq(cards, IsVisible)) <= Capacity

\* C2: in every reachable state every fixed card is selected and visible, whatever
\* Load, Toggle, Reorder, Save and Cancel did before.
C2_FixedSelectedVisible ==
  \A i \in DOMAIN cards : cards[i].fixed => cards[i].selected /\ cards[i].visible

\* a fixed card is loaded with user settings, and a toggle went through after it
C2_Witness ==
  /\ lastOp = Op("toggle", "applied")
  /\ \E i \in DOMAIN cards : cards[i].fixed
  /\ \E i \in DOMAIN cards : ~cards[i].fixed /\ cards[i].selected /\ ~cards[i].visible

\* C3: a toggle that would make the number of selected non-fixed cards exceed
\* 4 - fixedCount leaves the cards unchanged, and a toggle in a state within that
\* limit ends in a state within it.
C3_ToggleWithinLimit ==
  [][lastOp'.op = "toggle" =>
     \A c \in Range(cards), sel \in BOOLEAN :
       handleSelectionChange(c.id, sel) =>
         /\ SelectableAfter(c, sel) > Capacity - FixedCount(cards) => cards' = cards
         /\ SelectableCount(cards) <= Capacity - FixedCount(cards)
              => SelectableCount(cards') <= Capacity - FixedCount(cards')]_vars

\* with one fixed card and 3 non-fixed cards selected, selecting a 4th was rejected
C3_Witness ==
  /\ lastOp = Op("toggle", "rejected")
  /\ FixedCount(cards) = 1
  /\ SelectableCount(cards) = 3
  /\ \E i \in DOMAIN cards : ~cards[i].fixed /\ ~cards[i].selected


\* the visible fixed cards whose defaultOrder names slot s
FixedFor(s) ==
  {i \in DOMAIN cards : cards[i].visible /\ cards[i].fixed /\ cards[i].defaultOrder = s}

FreeSlots == {s \in 1..Capacity : FixedFor(s) = {}}
VisibleUserCards == {i \in DOMAIN cards : cards[i].visible /\ ~cards[i].fixed}
FilledFreeSlots == {s \in FreeSlots : gridSlots[s].id # 0}
Min(a, b) == IF a <= b THEN a ELSE b

\* C4: the grid is the two-pass assignment: a slot that a visible fixed card's
\* defaultOrder names holds such a card; the other slots hold, packed towards
\* the low indices and in ascending order value, the visible non-fixed cards
\* of lowest order value, as many as fit; fixed cards out of range are in no slot.
C4_GridIsTwoPass ==
  /\ \A s \in (1..Capacity) \ FreeSlots : \E i \in FixedFor(s) : gridSlots[s] = cards[i]
  /\ \A s \in FilledFreeSlots : \E i \in VisibleUserCards : gridSlots[s] = cards[i]
  /\ Cardinality(FilledFreeSlots) =
       Min(Cardinality(FreeSlots), Cardinality(VisibleUserCards))
  /\ \A s, t \in FreeSlots : s < t /\ t \in FilledFreeSlots => s \in FilledFreeSlots
  /\ \A s, t \in FilledFreeSlots :
       s < t => gridSlots[s].order <= gridSlots[t].order /\ gridSlots[s].id # gridSlots[t].id
  /\ \A i \in VisibleUserCards :
       (\A s \in FilledFreeSlots : gridSlots[s].id # cards[i].id)
         => \A s \in FilledFreeSlots : gridSlots[s].order <= cards[i].order

\* fixed cards with defaultOrder 1 and 3 and user cards of order 1, 2 and 3: the
\* fixed cards are in slots 0 and 2, user cards 1 and 2 in slots 1 and 3, and
\* the third user card in no slot
C4_Witness ==
  /\ lastOp.op = "load"
  /\ {cards[i].defaultOrder : i \in {j \in DOMAIN cards : cards[j].visible /\ cards[j].fixed}}
       = {1, 3}
  /\ Cardinality(VisibleUserCards) = 3
  /\ {cards[i].order : i \in VisibleUserCards} = {1, 2, 3}
  /\ gridSlots[1].fixed /\ gridSlots[3].fixed
  /\ ~gridSlots[2].fixed /\ gridSlots[2].order = 1
  /\ ~gridSlots[4].fixed /\ gridSlots[4].order = 2

\* C5: every fixed card on the dashboard is the (defaultOrder - 1)-th rendered
\* card (0-based).
C5_FixedRenderedAtDefaultOrder ==
  \A k \in DOMAIN rendered :
    CardById(rendered[k]).fixed => CardById(rendered[k]).defaultOrder = k

\* C6: handleSave with more than 4 selected cards alerts, sends no request to
\* the settings store and leaves the cards as they are.
C6_SaveOverCapacityRejected ==
  [][lastOp'.op = "save" =>
     (handleSave /\ Len(SelectSeq(cards, IsSelected)) > Capacity
        => /\ lastOp' = Op("save", "alert: up to 4 cards")
           /\ saves' = saves
           /\ store' = store
           /\ cards' = cards)]_vars

\* handleSave was called with more than 4 cards selected and has alerted
C6_Witness ==
  /\ lastOp = Op("save", "alert: up to 4 cards")
  /\ Len(SelectSeq(cards, IsSelected)) > Capacity
  /\ saves = <<>>

\* C7: after Cancel the cards are exactly the ones captured when the customize
\* panel was opened.
C7_CancelRestoresOpened == lastOp = Op("cancel", "ok") => cards = openedWith

\* the selection in the user's record of UserSettingsList; none without a record
PersistedSelection ==
  IF store # <<>> /\ store[1].PersonalisedCards.kind = "ok"
  THEN store[1].PersonalisedCards.selectedCards
  ELSE <<>>

Referenced(id) == \E k \in DOMAIN PersistedSelection : PersistedSelection[k].id = id

FixedAsLoaded(c) == c.selected /\ c.visible /\ c.order = c.defaultOrder

UserCardAsInSettings(c) ==
  IF Referenced(c.id)
  THEN /\ c.selected /\ c.visible
       /\ \E k \in DOMAIN PersistedSelection :
            PersistedSelection[k].id = c.id /\ PersistedSelection[k].order = c.order
  ELSE ~c.selected /\ ~c.visible

\* C8 (as claimed): after Load, fixed cards are selected and visible with
\* order = defaultOrder, non-fixed cards referenced by the persisted settings are
\* selected and visible with the settings' order, and all other non-fixed cards
\* are neither selected nor visible.
C8_LoadFollowsSettings ==
  lastOp.op = "load" /\ lastOp.result # "failed" =>
    \A i \in DOMAIN cards :
      IF cards[i].fixed THEN FixedAsLoaded(cards[i]) ELSE UserCardAsInSettings(cards[i])

\* C8 (amended): after Load, fixed cards are selected and visible with
\* order = defaultOrder; when the settings record was read and parsed, non-fixed
\* cards are as the record says; when no settings were read (no record, a failed
\* request, an unparseable blob), a non-fixed card is selected and visible
\* exactly when it is among the first 4 rows, with order = defaultOrder.
C8_LoadFollowsSettingsOrDefault ==
  /\ lastOp = Op("load", "settings") =>
       \A i \in DOMAIN cards :
         IF cards[i].fixed THEN FixedAsLoaded(cards[i]) ELSE UserCardAsInSettings(cards[i])
  /\ lastOp = Op("load", "default") =>
       \A i \in DOMAIN cards :
         IF cards[i].fixed THEN FixedAsLoaded(cards[i])
         ELSE /\ cards[i].selected = (i <= Capacity)
              /\ cards[i].visible = (i <= Capacity)
              /\ cards[i].order = cards[i].defaultOrder

\* settings were read: a referenced non-fixed card has the settings' order, not
\* its defaultOrder, and an unreferenced one is left unselected
C8_Witness ==
  /\ lastOp = Op("load", "settings")
  /\ \E i \in DOMAIN cards :
       ~cards[i].fixed /\ Referenced(cards[i].id) /\ cards[i].order # cards[i].defaultOrder
  /\ \E i \in DOMAIN cards : ~cards[i].fixed /\ ~Referenced(cards[i].id)
  /\ \E i \in DOMAIN cards : cards[i].fixed

\* C9: a drag that ends with a fixed dragged card or over a fixed card leaves
\* the card array and every order value unchanged.
C9_FixedNeverReordered ==
  [][lastOp'.op = "dragEnd" =>
     \A over \in DropTargets :
       handleDragEnd(over) /\ (ActiveData.fixed \/ (over.id # 0 /\ over.fixed))
         => cards' = cards]_vars

\* C10: a drag that ends over nothing, over the dragged card itself, or with the
\* dragged or the target card not selected leaves the card array and every
\* order value unchanged.
C10_ReorderOnlyBetweenSelected ==
  [][lastOp'.op = "dragEnd" =>
     \A over \in DropTargets :
       handleDragEnd(over) /\ (\/ over.id = 0
                               \/ over.id = ActiveData.id
                               \/ ~ActiveData.selected
                               \/ ~over.selected)
         => cards' = cards]_vars

\* C11: the settings list holds at most one record of the user, whatever Saves
\* were started and however their requests interleave.
C11_OneRecordPerUser == Len(store) <= 1

\* the save of the queue that ends in this step
EndedSave(i) ==
  /\ i \in DOMAIN saves
  /\ saves' = SpliceOut(saves, i)
  /\ lastOp'.op = "saveEnd"

\* some record of the list holds the selection of save i
StoredSelection(records, i) ==
  \E k \in DOMAIN records : records[k].PersonalisedCards = Blob(saves[i].selectedCards)

\* C12: a Save that passed the capacity check and ends without an alert has
\* written its selection to the settings list (a failed lookup or write is
\* always followed by the alert).
C12_SaveNeverFailsSilently ==
  [][Len(saves') < Len(saves) =>
     \A i \in DOMAIN saves :
       EndedSave(i) /\ lastOp' = Op("saveEnd", "no alert") => StoredSelection(store', i)]_vars

\* ------------------------------------------------- properties of a card
\* the card's text is the text of this JSON value, and its effect has run
ClassifiedDocument(json) == ~cardEffect /\ cardViewJSON = TextOf(json)
Document == JsonParse(cardViewJSON)

\* C13: a card whose text parses to a document with a top-level type string
\* starting with "Chart." is classified chart, whatever its body, version and
\* other properties are.
C13_ChartTypeIsChart ==
  /\ ~cardEffect
  /\ cardViewJSON.kind = "json"
  /\ StartsWith(Prop(Document, "type"), "Chart.")
  => contentType = "chart"

\* a direct chart configuration with a version and a body of complex elements
\* and no chart element
C13_Witness ==
  /\ ~cardEffect
  /\ cardViewJSON.kind = "json"
  /\ StartsWith(Prop(Document, "type"), "Chart.")
  /\ Truthy(Prop(Document, "version"))
  /\ IsArray(Prop(Document, "body"))
  /\ hasComplexElements(Document.body.a)
  /\ ~Truthy(findChartElement(Document.body.a))
  /\ contentType = "chart"

\* a document without a chart type whose body is an array with no chart
\* element at any depth and no complex top-level entry
PlainBodyDocument ==
  /\ cardViewJSON.kind = "json"
  /\ ~StartsWith(Prop(Document, "type"), "Chart.")
  /\ IsArray(Prop(Document, "body"))
  /\ ~Truthy(findChartElement(Document.body.a))
  /\ ~hasComplexElements(Document.body.a)

\* C14: a document whose body holds no chart element and no rich top-level
\* entry is classified simple card (adaptiveCard) when its type is
\* "AdaptiveCard" or it has a version, and error otherwise; rich card
\* (adaptiveCardContent) only comes from a rich top-level body entry.
C14_PlainBodyIsSimpleOrError ==
  /\ ~cardEffect /\ PlainBodyDocument
       => contentType = IF IsAdaptiveCard(Document) THEN "adaptiveCard" ELSE "error"
  /\ ~cardEffect /\ cardViewJSON.kind = "json" /\ contentType = "adaptiveCardContent"
       => IsArray(Prop(Document, "body")) /\ hasComplexElements(Document.body.a)

\* the card's effects have run and its subtree is on the page
Settled == treeMounted /\ ~cardEffect /\ ~rendererEffect

\* C15: a card without JSON text is classified empty and shows the no-data
\* panel, also when its text was not empty before.
C15_NoTextIsEmpty ==
  Settled /\ cardViewJSON = NoText
    => contentType = "empty" /\ content = Panel("No data available")

\* C16: a card whose text is not JSON is classified error and shows the error
\* panel, and rendering it throws nothing.
C16_NotJsonIsError ==
  cardViewJSON = NotJson
    => /\ treeMounted
       /\ ~cardEffect => contentType = "error" /\ content = Panel("Error loading card content")

\* the text of a card that showed something else became text that is not JSON
C16_Witness ==
  /\ cardViewJSON = NotJson
  /\ updates > 0
  /\ ~cardEffect
  /\ contentType = "error"
  /\ content = Panel("Error loading card content")

\* C17: whatever a card's document holds, rendering the card leaves the other
\* cards of the grid rendered: the web part's tree stays mounted.
C17_MalformedCardIsConfined == treeMounted

HasUnknownType(element) ==
  element.t = "object" /\ IsString(element.type) /\ element.type.s \notin KnownTypes

RECURSIVE RenderedInOrder(_, _)
\* nodes are the renderings of the elements, one each and in their order: the
\* placeholder with its type for an element of unknown type, the component of
\* a known type, and the same for the items of containers and columns
RenderedInOrder(elements, nodes) ==
  /\ Len(nodes) = Len(elements)
  /\ \A i \in DOMAIN elements :
       LET element == elements[i]
           type == Prop(element, "type")
       IN /\ HasUnknownType(element) =>
               nodes[i] = [node |-> "UnsupportedElement", type |-> type]
          /\ (IsString(type) /\ type.s \in LeafTypes) =>
               nodes[i].node = "element" /\ nodes[i].type = type
          /\ (type = Str(<<"Container">>) /\ IsArray(element.items)) =>
               RenderedInOrder(element.items.a, nodes[i].children)
          /\ (type = Str(<<"ColumnSet">>) /\ IsArray(element.columns)) =>
               /\ Len(nodes[i].children) = Len(element.columns.a)
               /\ \A c \in DOMAIN element.columns.a :
                    IsArray(Prop(element.columns.a[c], "items")) =>
                      RenderedInOrder(element.columns.a[c].items.a,
                                      nodes[i].children[c].children)

RECURSIVE OnlyTextAndUnknown(_)
\* text blocks and elements of unknown type, alone or in containers
OnlyTextAndUnknown(elements) ==
  \A i \in DOMAIN elements :
    LET element == elements[i]
    IN \/ HasUnknownType(element)
       \/ Prop(element, "type") = Str(<<"TextBlock">>)
       \/ /\ Prop(element, "type") = Str(<<"Container">>)
          /\ IsArray(element.items) /\ OnlyTextAndUnknown(element.items.a)
       \/ /\ Prop(element, "type") = Str(<<"ColumnSet">>)
          /\ IsArray(element.columns)
          /\ \A c \in DOMAIN element.columns.a :
               /\ IsArray(Prop(element.columns.a[c], "items"))
               /\ OnlyTextAndUnknown(element.columns.a[c].items.a)

\* the renderer has rendered, or thrown on, the body of the card it parsed
BodyRendered ==
  /\ rendererJson # NoRenderer
  /\ contentType # "adaptiveCard"
  /\ ~Truthy(error)
  /\ IsArray(Prop(parsedCard, "body"))

\* C18: an element of a type renderElement has no case for is rendered, at any
\* depth, as the placeholder with its type; it throws nothing, and the
\* elements next to it are rendered in their order.
C18_UnknownTypeIsPlaceholder ==
  BodyRendered =>
    /\ OnlyTextAndUnknown(parsedCard.body.a) /\ ~Truthy(parsedCard.actions)
         => content # Thrown
    /\ content # Thrown =>
         RenderedInOrder(parsedCard.body.a,
                         SubSeq(content.children, 1, Len(parsedCard.body.a)))

\* an element of unknown type inside a column inside a container, and one
\* next to a text block
C18_Witness ==
  /\ BodyRendered
  /\ content # Thrown
  /\ \/ /\ parsedCard.body.a =
             <<Container(Arr(<<ColumnSet(Arr(<<Column(Arr(<<Elem(<<"Carousel">>)>>))>>))>>))>>
        /\ content.children[1].children[1].children[1].children[1]
             = [node |-> "UnsupportedElement", type |-> Str(<<"Carousel">>)]
     \/ /\ parsedCard.body.a = <<Elem(<<"Carousel">>), Elem(<<"TextBlock">>)>>
        /\ content.children[1] = [node |-> "UnsupportedElement", type |-> Str(<<"Carousel">>)]
        /\ content.children[2].type = Str(<<"TextBlock">>)

\* the element types of the documented vocabulary, chart tags apart
DocumentedTypes ==
  {<<"TextBlock">>, <<"RichTextBlock">>, <<"TextRun">>, <<"Image">>, <<"ImageSet">>,
   <<"Media">>, <<"Table">>, <<"FactSet">>, <<"ActionSet">>, <<"ColumnSet">>,
   <<"Container">>, <<"Input.", "Text">>, <<"Input.", "Number">>, <<"Input.", "Date">>,
   <<"Input.", "Time">>, <<"Input.", "Toggle">>, <<"Input.", "ChoiceSet">>,
   <<"ProgressBar">>, <<"CompoundButton">>, <<"Chart">>}

IsDocumentedType(type) ==
  IsString(type) /\ (type.s \in DocumentedTypes \/ StartsWith(type, "Chart."))

RECURSIVE Placeholders(_)
\* the unsupported-element placeholders of a rendered subtree
Placeholders(node) ==
  IF node.node = "UnsupportedElement" THEN {node}
  ELSE IF node.node \in {"PopoverRenderer", "element", "card", "column"}
  THEN UNION {Placeholders(node.children[i]) : i \in DOMAIN node.children}
  ELSE {}

\* C19: no element of a type of the documented vocabulary is rendered as the
\* unsupported placeholder.
C19_VocabularyIsRendered ==
  \A placeholder \in Placeholders(content) : ~IsDocumentedType(placeholder.type)

Rendered == rendering # NotRendered
\* the `type` and `data` props CustomChartRenderer gets for the element
KindOf(e) == Or(Field(e, "type"), Str(<<"Chart.", "Bar">>))
DataOf(e) == Or(Field(e, "data"), Arr(<<>>))
\* the data are an array of objects, as ChartDataItem[] says
IsPointArray(data) == IsArray(data) /\ \A i \in DOMAIN data.a : data.a[i].t = "object"

\* C21: for every kind and every array of data points, Chart.Gauge gives the
\* not-supported message and no chart component; any other kind gives one chart
\* component: Doughnut for Chart.Donut and Chart.Doughnut, Pie for Chart.Pie,
\* Line for Chart.Line, and Bar for Chart.VerticalBar, Chart.Bar,
\* Chart.HorizontalBar and every other kind.
C21_KindMapping ==
  Rendered /\ ~IsProgressBar(elementProp) /\ IsPointArray(DataOf(elementProp)) =>
    IF KindOf(elementProp) = Str(<<"Chart.", "Gauge">>)
    THEN rendering = Panel("Gauge charts are not supported in this component.")
    ELSE /\ rendering.node = "chart"
         /\ rendering.backend =
              CASE KindOf(elementProp) \in {Str(<<"Chart.", "Donut">>),
                                            Str(<<"Chart.", "Doughnut">>)} -> "Doughnut"
                [] KindOf(elementProp) = Str(<<"Chart.", "Pie">>) -> "Pie"
                [] KindOf(elementProp) = Str(<<"Chart.", "Line">>) -> "Line"
                [] OTHER -> "Bar"

\* a gauge with data points gave the message, no chart
C21_Witness ==
  /\ Rendered
  /\ KindOf(elementProp) = Str(<<"Chart.", "Gauge">>)
  /\ IsPointArray(DataOf(elementProp)) /\ Len(DataOf(elementProp).a) = MaxPoints
  /\ rendering = Panel("Gauge charts are not supported in this component.")

\* C22: in a bar or line chart the label of a data point is its x when x is
\* present, else its legend when present, else "", and its value is its y when
\* y is present (0 included), else its value when present, else 0; in a pie or
\* doughnut chart the label is legend or "" and the value is value or 0.
C22_SeriesValues ==
  Rendered /\ ~IsProgressBar(elementProp) /\ IsPointArray(DataOf(elementProp))
    /\ rendering.node = "chart" =>
      /\ Len(rendering.processedData.labels) = Len(DataOf(elementProp).a)
      /\ Len(rendering.processedData.values) = Len(DataOf(elementProp).a)
      /\ \A i \in DOMAIN DataOf(elementProp).a :
           LET point == DataOf(elementProp).a[i]
               label == rendering.processedData.labels[i]
               value == rendering.processedData.values[i]
           IN IF rendering.backend \in {"Bar", "Line"}
              THEN /\ label = Coalesce(Coalesce(Field(point, "x"), Field(point, "legend")),
                                       Str(<<>>))
                   /\ value = Coalesce(Coalesce(Field(point, "y"), Field(point, "value")),
                                       Num(0))
              ELSE /\ label = Or(Field(point, "legend"), Str(<<>>))
                   /\ value = Or(Field(point, "value"), Num(0))

\* the numbers ProgressBar works with: the element's, or the defaults
MinOf(e) == Coalesce(Field(e, "min"), Num(0)).n
MaxOf(e) == Coalesce(Field(e, "max"), Num(100)).n
ValueOf(e) == Coalesce(Field(e, "progressValue"), Num(0)).n

\* C23: for integer min, max and progressValue (0, 100 and 0 when absent) the
\* value shown is progressValue clamped into [min, max]; when max > min the
\* percentage is (clamped - min) / (max - min) * 100 and lies in [0, 100]; when
\* max <= min the percentage is 0 and nothing is divided.
C23_ProgressBarClamps ==
  Rendered /\ IsProgressBar(elementProp) =>
    LET min == MinOf(elementProp)
        max == MaxOf(elementProp)
        value == ValueOf(elementProp)
        percentage == rendering.percentage
    IN /\ min <= max =>
            rendering.clampedValue =
              IF value < min THEN min ELSE IF value > max THEN max ELSE value
       /\ max > min =>
            /\ percentage = Quotient((rendering.clampedValue - min) * 100, max - min)
            /\ 0 <= percentage.num /\ percentage.num <= 100 * percentage.den
       /\ max <= min => percentage = Quotient(0, 1)
       /\ percentage.den > 0

\* a value above max with a min other than 0: the bar is full
C23_Witness ==
  /\ Rendered /\ IsProgressBar(elementProp)
  /\ MinOf(elementProp) = 1 /\ MaxOf(elementProp) = 100
  /\ ValueOf(elementProp) = 100 + MaxProgress
  /\ rendering.clampedValue = 100
  /\ rendering.percentage = Quotient(9900, 99)

\* ------------------------------------- properties of the customize flow
\* the card with this id in a card array
CardIn(cs, id) == cs[FindIndex(cs, id)]
\* the rank of a card by order value: 1 + the number of cards ordered before it
Rank(cs, id) == 1 + Cardinality({i \in DOMAIN cs : cs[i].order < CardIn(cs, id).order})

\* C24: a drag that reorders moves the dragged card only: two other cards that
\* were ranked one before the other by order value still are, and the dragged
\* card gets the rank the drop target had.
C24_ReorderMovesDraggedOnly ==
  [][lastOp'.op = "dragEnd" =>
     \A over \in DropTargets :
       handleDragEnd(over) /\ ~DragIgnored(ActiveData, over) =>
         /\ \A a, b \in Range(cards) :
              a.id # ActiveData.id /\ b.id # ActiveData.id /\ a.order < b.order
                => CardIn(cards', a.id).order < CardIn(cards', b.id).order
         /\ Rank(cards', ActiveData.id) = Rank(cards, over.id)]_vars

\* the card ids of the grid, slot by slot (0 for an empty slot)
SlotIds(slots) == [i \in DOMAIN slots |-> slots[i].id]

\* the grid a Load shows when the settings request returns this selection
GridAfterLoad(selectedCards) ==
  GridSlots(LoadedCards(CardsData(masterList), Blob(selectedCards)))

\* the cards are the loaded rows of the card list
CardsLoaded == loadPc = "done" /\ Len(cards) = Len(masterList)

\* C25: a Save of the loaded cards that passes the capacity check shows a grid
\* that the next Load shows again, when the Save's selection is written and the
\* Load reads it from the same card list: the same cards in the same slots.
C25_SaveThenLoadKeepsGrid ==
  [][lastOp'.op = "save" =>
     (handleSave /\ CardsLoaded /\ ~SaveRejected(cards)
        => SlotIds(GridAfterLoad(saves'[Len(saves')].selectedCards)) = SlotIds(gridSlots'))]_vars

\* C26: a toggle that deselects a selected non-fixed card is applied: the card
\* is not selected after it, however many cards were selected when it was loaded.
C26_DeselectNeverRejected ==
  [][lastOp'.op = "toggle" =>
     \A c \in Range(cards) :
       handleSelectionChange(c.id, FALSE) /\ ~c.fixed /\ c.selected
         => ~CardIn(cards', c.id).selected]_vars

\* C27: while the customize panel is open, no toggle and no drag changes the
\* cards shown in the slots of the dashboard grid.
C27_GridUnchangedWhileCustomizing ==
  [][lastOp'.op \in {"toggle", "dragEnd"} /\ isCustomizePanelOpen =>
     /\ \A c \in Range(cards), selected \in BOOLEAN :
          handleSelectionChange(c.id, selected) => SlotIds(gridSlots') = SlotIds(gridSlots)
     /\ \A over \in DropTargets :
          handleDragEnd(over) => SlotIds(gridSlots') = SlotIds(gridSlots)]_vars

\* ------------------------------------------- properties of a chart card
RECURSIVE NodesOf(_)
\* every node of a rendered subtree
NodesOf(node) ==
  IF node.node \in {"PopoverRenderer", "element", "card", "column"}
  THEN {node} \cup UNION {NodesOf(node.children[i]) : i \in DOMAIN node.children}
  ELSE {node}

\* the chart element the classifier takes the chart data from
FoundChart ==
  IF IsDirectChart(Document) THEN Document ELSE findChartElement(Document.body.a)

\* CustomChartRenderer was rendered with the type, title and data of the element
ReachedChartAdapter(node, chartElement) ==
  IF KindOf(chartElement) = Str(<<"Chart.", "Gauge">>)
  THEN node = Panel("Gauge charts are not supported in this component.")
  ELSE /\ node.node = "chart"
       /\ node.type = KindOf(chartElement)
       /\ node.title = Or(Field(chartElement, "title"), Str(<<>>))
       /\ node.data = DataOf(chartElement)

\* C28: a card whose document is classified chart shows, once its effects have
\* run, the chart of the element the classifier found (the document itself, or
\* the first chart element of its body): CustomChartRenderer is rendered with
\* that element's type, title and data.
C28_ChartCardDrawsChart ==
  /\ Settled
  /\ cardViewJSON.kind = "json"
  /\ ClassifiedText(cardViewJSON).contentType = "chart"
  => \E node \in NodesOf(content) : ReachedChartAdapter(node, FoundChart)

\* ---------------------------------------------- properties of the grid
\* the slots of the grid that hold this card
SlotsOf(id) == {slot \in 1..Capacity : gridSlots[slot].id = id}

\* C29: every visible fixed card whose defaultOrder is 1..4 is in exactly one
\* slot of the grid (no other card has taken its slot), and no card is in two
\* slots.
C29_GridNeverCollides ==
  /\ \A i \in DOMAIN cards :
       cards[i].visible /\ cards[i].fixed /\ InGrid(cards[i])
         => Cardinality(SlotsOf(cards[i].id)) = 1
  /\ \A i \in DOMAIN cards : Cardinality(SlotsOf(cards[i].id)) <= 1

\* ------------------------------------- the card set in the customize flow
\* what a card is for its lifetime
Identity(c) == [id |-> c.id, title |-> c.title, fixed |-> c.fixed,
                defaultOrder |-> c.defaultOrder]

\* the same cards, none lost and none twice, with the same id, title, fixed
\* and defaultOrder
SameCardSet(before, after) ==
  /\ Len(after) = Len(before)
  /\ \A i, j \in DOMAIN after : after[i].id = after[j].id => i = j
  /\ {Identity(after[i]) : i \in DOMAIN after} = {Identity(before[i]) : i \in DOMAIN before}

SameFlags(before, after) ==
  \A i \in DOMAIN before :
    /\ CardIn(after, before[i].id).selected = before[i].selected
    /\ CardIn(after, before[i].id).visible = before[i].visible

\* this step is a call of handleSelectionChange, of handleDragEnd
ToggleStep == lastOp'.op = "toggle" /\ ops' = ops + 1
DragEndStep == lastOp'.op = "dragEnd" /\ activeCard.id # 0 /\ activeCard'.id = 0

\* C30: a toggle and a drag leave the set of cards and every card's id, title,
\* fixed and defaultOrder as they are; a drag also leaves every selected and
\* visible flag, and a drag that reorders leaves the order values 1..N, each
\* once.
C30_CardSetIntact ==
  [][/\ ToggleStep => SameCardSet(cards, cards')
     /\ DragEndStep =>
          /\ SameCardSet(cards, cards')
          /\ SameFlags(cards, cards')
          /\ lastOp'.result = "reordered" =>
               {cards'[i].order : i \in DOMAIN cards'} = 1..Len(cards')]_vars

\* a drag has moved a card of a list whose DefaultOrder column has gaps, with
\* a card left unselected: the order values are 1..N again
C30_Witness ==
  /\ lastOp = Op("dragEnd", "reordered")
  /\ Len(cards) >= 3
  /\ \E i \in DOMAIN cards : cards[i].defaultOrder > Len(cards)
  /\ \E i \in DOMAIN cards : cards[i].id # masterList[i].Id
  /\ \E i \in DOMAIN cards : ~cards[i].selected
  /\ {cards[i].order : i \in DOMAIN cards} = 1..Len(cards)

====
